---- MODULE Spec2Model ----
(***************************************************************************)
(* A model of pkg/workspace: the process-wide workspace cache (NewFrom,    *)
(* loadFromCache, upsertIntoCache), the per-project settings store         *)
(* (readSettings, Save, settingsPath) and the project manifest decoder     *)
(* exercised by the package's unmarshalling tests.                         *)
(***************************************************************************)
EXTENDS Integers, Sequences, FiniteSets, TLC

\* ------------------------------------------------------------------ bounds

\* Goroutines calling NewFrom concurrently in one process.
NumThreads == 2
\* NewFrom calls made in one process run.
MaxCalls == 3
\* Steps of the callers apart from NewFrom (a change through Settings(), a
\* Save) and of the environment (a change to a file), in one process run of
\* a sequential client and of a concurrent one.
MaxEvents == 3
MaxRaceEvents == 1

Threads == 1..NumThreads

\* ------------------------------------------------------------ file system

\* Directories a caller may pass to NewFrom; "a" is relative to the working
\* directory /w, and /w/a/b is a sub-directory of /w/a.
RawDirs == {"a", "/w/a", "/w/a/b"}

\* filepath.Abs: a relative directory is joined to the working directory.
Abs(dir) == IF dir = "a" THEN "/w/a" ELSE dir

\* The manifest files of the model: one in /w/a and one in /w/a/b.
P1 == "/w/a/Pulumi.yaml"
P2 == "/w/a/b/Pulumi.yaml"
ManifestPaths == {P1, P2}

\* ------------------------------------------------------- manifest decoder

\* A decoded document: a scalar or an object, whose entries are in document
\* order and whose keys are themselves scalars (YAML allows any scalar key).
Str(v) == [t |-> "string", s |-> v, n |-> 0, e |-> <<>>]
Num(v) == [t |-> "number", s |-> "", n |-> v, e |-> <<>>]
Null == [t |-> "null", s |-> "", n |-> 0, e |-> <<>>]
Obj(entries) == [t |-> "object", s |-> "", n |-> 0, e |-> entries]
Entry(k, v) == [k |-> k, v |-> v]

Syntaxes == {"JSON", "YAML"}

\* The documents of the model: scalars, and objects with any combination of
\* the members below.
BadKeyChoices ==
    {<<>>, <<Entry(Num(4), Str("hello"))>>,
     <<Entry(Str("hello"), Obj(<<Entry(Num(6), Str("bad"))>>))>>}
NameChoices ==
    {<<>>} \cup {<<Entry(Str("name"), v)>> : v \in {Null, Str(""), Num(4), Str("project")}}
RuntimeChoices ==
    {<<>>} \cup {<<Entry(Str("runtime"), v)>> :
                    v \in {Str("test"), Num(4), Obj(<<Entry(Str("name"), Str("nodejs"))>>)}}
BackendChoices == {<<>>} \cup {<<Entry(Str("backend"), v)>> : v \in {Num(4), Str("url")}}
MainChoices == {<<>>} \cup {<<Entry(Str("main"), v)>> : v \in {Obj(<<>>), Str("index")}}

Docs ==
    {Str("hello"), Num(4), Null}
    \cup {Obj(x \o nm \o r \o b \o m) :
            x \in BadKeyChoices, nm \in NameChoices, r \in RuntimeChoices,
            b \in BackendChoices, m \in MainChoices}

Has(doc, key) == \E i \in DOMAIN doc.e : doc.e[i].k = Str(key)
Get(doc, key) == doc.e[CHOOSE i \in DOMAIN doc.e : doc.e[i].k = Str(key)].v

\* The non-string keys of a value, in document order, depth first.
RECURSIVE BadKeys(_)
BadKeysIn(entries) ==
    IF entries = <<>> THEN <<>>
    ELSE LET h == Head(entries)
             rest == Tail(entries)
         IN (IF h.k.t # "string" THEN <<h.k>> ELSE BadKeys(h.v))
            \o BadKeys(Obj(rest))
BadKeys(v) == IF v.t = "object" THEN BadKeysIn(v.e) ELSE <<>>

\* JSON object keys are strings: a document with another key is YAML only.
HasSyntax(doc, syntax) == syntax = "YAML" \/ BadKeys(doc) = <<>>

\* How the decoder prints an offending key (the unmarshalling tests, "Test
\* bad key" and "Test nested bad key"): an integer under the verb %s.
RenderKey(k) == "%!s(int=" \o ToString(k.n) \o ")"

\* A decoder whose message names JSON whatever the syntax is.
CheckObjectJSON(syntax, doc) ==
    IF doc.t = "object" THEN "" ELSE "expected a JSON object"

\* Step 2: the top-level value must be an object.
CheckObject(syntax, doc) ==
    IF doc.t = "object" THEN "" ELSE "expected a " \o syntax \o " object"

\* Step 3: every key at every depth must be a string.
CheckKeys(doc) ==
    IF BadKeys(doc) = <<>> THEN ""
    ELSE "expected only string keys, got '" \o RenderKey(Head(BadKeys(doc))) \o "'"

\* Step 5: the presence checks, in order.
CheckPresence(doc) ==
    IF ~Has(doc, "name") THEN "project is missing a 'name' attribute"
    ELSE IF Get(doc, "name").t # "string" \/ Get(doc, "name").s = ""
    THEN "project is missing a non-empty string 'name' attribute"
    ELSE IF ~Has(doc, "runtime") THEN "project is missing a 'runtime' attribute"
    ELSE ""

\* The type of the Go value a syntax's native decoder gives for a value of
\* the document: encoding/json decodes a number as float64 and an object as
\* map[string]interface{}, yaml.v2 an integer as int and a mapping as
\* map[interface{}]interface{}.
GoType(syntax, v) ==
    CASE v.t = "string" -> "string"
      [] v.t = "null" -> "nil"
      [] v.t = "number" -> IF syntax = "JSON" THEN "float64" ELSE "int"
      [] v.t = "object" -> IF syntax = "JSON" THEN "map[string]interface {}"
                           ELSE "map[interface {}]interface {}"

\* A validator that names the Go type of the value it was given.
SchemaTypeGo(goType) == goType

\* The name the validator gives the type of a normalized value.
SchemaType(goType) ==
    CASE goType = "string" -> "string"
      [] goType = "nil" -> "null"
      [] goType \in {"float64", "int"} -> "number"
      [] OTHER -> "object"

TypeName(syntax, v) == SchemaType(GoType(syntax, v))

\* The schema validator: the errors it reports, in its order.  runtime is a
\* string or an object; name, main and backend are strings.
ExpectString(syntax, doc, key) ==
    IF Has(doc, key) /\ Get(doc, key).t # "string"
    THEN <<[path |-> key,
            msg |-> "expected string, but got " \o TypeName(syntax, Get(doc, key))]>>
    ELSE <<>>

SchemaErrors(syntax, doc) ==
    ExpectString(syntax, doc, "name")
    \o (IF Has(doc, "runtime") /\ Get(doc, "runtime").t \notin {"string", "object"}
        THEN <<[path |-> "runtime", msg |-> "oneOf failed"],
               [path |-> "runtime",
                msg |-> "expected string, but got "
                            \o TypeName(syntax, Get(doc, "runtime"))],
               [path |-> "runtime",
                msg |-> "expected object, but got "
                            \o TypeName(syntax, Get(doc, "runtime"))]>>
        ELSE <<>>)
    \o ExpectString(syntax, doc, "main")
    \o ExpectString(syntax, doc, "backend")

\* Step 4: the validator's errors as one error.
RECURSIVE ErrorLines(_)
ErrorLines(errs) ==
    IF errs = <<>> THEN ""
    ELSE "\t* #/" \o Head(errs).path \o ": " \o Head(errs).msg \o "\n"
         \o ErrorLines(Tail(errs))

\* A decoder that fails fast, with the validator's first error alone.
AggregateErrorFirst(errs) == "#/" \o Head(errs).path \o ": " \o Head(errs).msg

AggregateError(errs) ==
    ToString(Len(errs)) \o " errors occurred:\n" \o ErrorLines(errs) \o "\n"

CheckSchema(syntax, doc) ==
    IF SchemaErrors(syntax, doc) = <<>> THEN ""
    ELSE AggregateError(SchemaErrors(syntax, doc))

\* Step 6: the typed Project; runtime is a bare name or an object with a name.
NoProject == [name |-> "", runtime |-> ""]
Populate(doc) ==
    [name |-> Get(doc, "name").s,
     runtime |-> IF Get(doc, "runtime").t = "string" THEN Get(doc, "runtime").s
                 ELSE IF Has(Get(doc, "runtime"), "name")
                      THEN Get(Get(doc, "runtime"), "name").s
                      ELSE ""]

\* A decoder that validates against the schema before the presence checks.
DecodeOrderSchemaFirst == <<"object", "keys", "schema", "presence">>

\* The order in which the decoder applies its checks.
DecodeOrder == <<"object", "keys", "presence", "schema">>

RunCheck(check, syntax, doc) ==
    CASE check = "object" -> CheckObject(syntax, doc)
      [] check = "keys" -> CheckKeys(doc)
      [] check = "presence" -> CheckPresence(doc)
      [] check = "schema" -> CheckSchema(syntax, doc)

\* Project.UnmarshalJSON / UnmarshalYAML as one function: the first failing
\* check's error, or the populated Project.
RECURSIVE DecodeFrom(_, _, _)
DecodeFrom(i, syntax, doc) ==
    IF i > Len(DecodeOrder) THEN [err |-> "", proj |-> Populate(doc)]
    ELSE IF RunCheck(DecodeOrder[i], syntax, doc) # ""
         THEN [err |-> RunCheck(DecodeOrder[i], syntax, doc), proj |-> NoProject]
         ELSE DecodeFrom(i + 1, syntax, doc)
Decode(syntax, doc) == DecodeFrom(1, syntax, doc)

\* TestProjectUnmarshalJSON and TestProjectUnmarshalYAML: the documents
\* decoded and the error each test expects ("" for success; the success case
\* of the YAML test is decoded with json.Unmarshal and is not listed).
ProjectRuntime(r) == Obj(<<Entry(Str("name"), Str("project")), Entry(Str("runtime"), r)>>)
UnmarshalTests ==
    {[syntax |-> x, doc |-> Str("hello"), err |-> "expected a " \o x \o " object"] :
        x \in Syntaxes}
    \cup {[syntax |-> "YAML", doc |-> Obj(<<Entry(Num(4), Str("hello"))>>),
           err |-> "expected only string keys, got '%!s(int=4)'"],
          [syntax |-> "YAML",
           doc |-> Obj(<<Entry(Str("hello"), Obj(<<Entry(Num(6), Str("bad"))>>))>>),
           err |-> "expected only string keys, got '%!s(int=6)'"],
          [syntax |-> "JSON", doc |-> Obj(<<Entry(Str("name"), Str(""))>>),
           err |-> "project is missing a non-empty string 'name' attribute"],
          [syntax |-> "YAML", doc |-> Obj(<<Entry(Str("name"), Null)>>),
           err |-> "project is missing a non-empty string 'name' attribute"],
          [syntax |-> "JSON", doc |-> ProjectRuntime(Str("test")), err |-> ""]}
    \cup UNION {{[syntax |-> x, doc |-> Obj(<<>>),
                  err |-> "project is missing a 'name' attribute"],
                 [syntax |-> x, doc |-> Obj(<<Entry(Str("name"), Str("project"))>>),
                  err |-> "project is missing a 'runtime' attribute"],
                 [syntax |-> x, doc |-> ProjectRuntime(Num(4)),
                  err |-> "3 errors occurred:\n\t* #/runtime: oneOf failed\n"
                          \o "\t* #/runtime: expected string, but got number\n"
                          \o "\t* #/runtime: expected object, but got number\n\n"],
                 [syntax |-> x,
                  doc |-> Obj(<<Entry(Str("name"), Str("project")),
                                Entry(Str("runtime"), Str("test")),
                                Entry(Str("backend"), Num(4)),
                                Entry(Str("main"), Obj(<<>>))>>),
                  err |-> "2 errors occurred:\n"
                          \o "\t* #/main: expected string, but got object\n"
                          \o "\t* #/backend: expected string, but got number\n\n"]} :
                x \in Syntaxes}

\* The decoder of the model passes the package's unmarshalling tests.
PassesUnmarshalTests ==
    \A c \in UnmarshalTests :
        /\ Decode(c.syntax, c.doc).err = c.err
        /\ c.err = "" => Decode(c.syntax, c.doc).proj = [name |-> "project", runtime |-> "test"]

\* The manifest contents of the model.
NoManifest == [t |-> "absent", s |-> "", n |-> 0, e |-> <<>>]
ManifestOK == Obj(<<Entry(Str("name"), Str("project")), Entry(Str("runtime"), Str("test"))>>)
ManifestBad == Obj(<<>>)
ManifestContents == {NoManifest, ManifestOK, ManifestBad}

\* DetectProjectPathFrom: the manifest of the nearest directory, from absDir
\* upwards, that holds one; "" when there is none.
DetectProjectPathFrom(absDir, mf) ==
    IF absDir = "/w/a/b" /\ mf[P2] # NoManifest THEN P2
    ELSE IF mf[P1] # NoManifest THEN P1
    ELSE ""

\* LoadProject: read and decode the manifest at path.
LoadProject(path, mf) ==
    IF mf[path] = NoManifest THEN [err |-> "no such file", name |-> ""]
    ELSE LET r == Decode("YAML", mf[path])
         IN [err |-> r.err, name |-> r.proj.name]

\* ---------------------------------------------------------------- settings

\* Settings.ConfigDeprecated: map[tokens.QName]config.Map.  A map is a
\* function whose domain is the set of its keys.
ConfigKeys == {"s1", "s2"}
KeyOrder == <<"s1", "s2">>
EmptyMap == [k \in {} |-> ""]
\* config.Map values: no entry, or one entry whose value is itself empty.
OneEntry == [k \in {"key"} |-> ""]
InnerMaps == {EmptyMap, OneEntry}

\* A Settings value; isNil tells a nil ConfigDeprecated from an empty map.
NewSettings == [isNil |-> TRUE, config |-> EmptyMap]

\* Settings.IsEmpty.
IsEmpty(s) == DOMAIN s.config = {}

\* The file contents: no file, bytes that are no JSON, or a JSON document
\* whose "config" member lists the entries in key order.
NoFile == [kind |-> "nofile", entries |-> <<>>]
Garbage == [kind |-> "garbage", entries |-> <<>>]

RECURSIVE MarshalEntries(_, _)
MarshalEntries(m, keys) ==
    IF keys = <<>> THEN <<>>
    ELSE LET rest == MarshalEntries(m, Tail(keys))
         IN IF Head(keys) \in DOMAIN m
            THEN <<[k |-> Head(keys),
                    v |-> IF DOMAIN m[Head(keys)] = {} THEN <<>>
                          ELSE <<[k |-> "key", v |-> m[Head(keys)]["key"]]>>]>>
                 \o rest
            ELSE rest

\* json.MarshalIndent(pw.settings): the "config" member is omitted when the
\* map is empty (omitempty), and map keys are written in sorted order.
Marshal(s) == [kind |-> "json", entries |-> MarshalEntries(s.config, KeyOrder)]

UnmarshalInner(v) ==
    [k \in {v[i].k : i \in DOMAIN v} |-> v[CHOOSE i \in DOMAIN v : v[i].k = k].v]

\* json.Unmarshal(b, &settings): a document without a "config" member leaves
\* ConfigDeprecated nil.
Unmarshal(b) ==
    IF b.kind # "json"
    THEN [err |-> "invalid character", settings |-> NewSettings]
    ELSE LET es == b.entries
         IN [err |-> "",
             settings |->
                [isNil |-> es = <<>>,
                 config |-> [k \in {es[i].k : i \in DOMAIN es} |->
                    UnmarshalInner(es[CHOOSE i \in DOMAIN es : es[i].k = k].v)]]]

\* A digest that does not depend on the manifest path.
sha1HexStringEmpty(value) == "da39"

\* sha1HexString: the digest of a manifest path (collision-free on the
\* paths of the model).
sha1HexString(value) ==
    IF value = P1 THEN "3c1f" ELSE IF value = P2 THEN "9ab0" ELSE "da39"

WorkspaceFile == "workspace.json"

\* A settingsPath that names the file after the project alone.
settingsPathByName(name, project) ==
    <<"~/.pulumi/workspaces", name, "-", WorkspaceFile>>

\* projectWorkspace.settingsPath: the file name is
\* <name>-<sha1 of the manifest path>-workspace.json under the user's
\* bookkeeping directory.
settingsPath(name, project) ==
    <<"~/.pulumi/workspaces", name, "-", sha1HexString(project), "-", WorkspaceFile>>

ProjectNames == {"project"}
SettingsPaths == {settingsPath(n, p) : n \in ProjectNames, p \in ManifestPaths}

\* A readSettings that never reads the file.
readSettingsDefault(name, project, fs, fault) == [err |-> "", settings |-> NewSettings]

\* projectWorkspace.readSettings: a missing file is the default Settings,
\* any other read error and a parse error are returned.
readSettings(name, project, fs, fault) ==
    LET b == fs[settingsPath(name, project)]
    IN IF b = NoFile THEN [err |-> "", settings |-> NewSettings]
       ELSE IF fault THEN [err |-> "input/output error", settings |-> NewSettings]
       ELSE Unmarshal(b)

\* A NewFrom without lines 98-100.
EnsureConfigNoop(s) == s

\* NewFrom, lines 98-100: a nil ConfigDeprecated becomes an empty map.
EnsureConfig(s) == IF s.isNil THEN [isNil |-> FALSE, config |-> EmptyMap] ELSE s

\* A pruning that also deletes the entries whose inner map holds empty
\* values only.
PruneDeep(c) ==
    [k \in {j \in DOMAIN c : \E i \in DOMAIN c[j] : c[j][i] # ""} |-> c[k]]

\* projectWorkspace.Save, lines 112-116: delete the entries whose inner
\* map has no entry.
PruneEmpty(c) == [k \in {j \in DOMAIN c : DOMAIN c[j] # {}} |-> c[k]]

\* ------------------------------------------- Project.Validate, descriptors

\* A Project as Validate sees it: its name and the name of its runtime, ""
\* for a runtime that is not set.
ProjectValues == [name : {"", "a project", "project"}, runtime : {"", "test", "nodejs"}]

\* A Validate that checks the runtime before the name.
ValidateRuntimeFirst(p) ==
    IF p.runtime = "" THEN "project is missing a 'runtime' attribute"
    ELSE IF p.name = "" THEN "project is missing a 'name' attribute"
    ELSE ""

\* Project.Validate.
Validate(p) ==
    IF p.name = "" THEN "project is missing a 'name' attribute"
    ELSE IF p.runtime = "" THEN "project is missing a 'runtime' attribute"
    ELSE ""

\* The values of runtime options: booleans and strings.
BoolV(b) == [t |-> "bool", b |-> b, s |-> ""]
StrV(v) == [t |-> "string", b |-> FALSE, s |-> v]
OptionValues == {BoolV(TRUE), BoolV(FALSE), StrV("hello"), StrV("true")}
OptionKeys == {"typescript", "stringOption"}
OptionMaps == UNION {[ks -> OptionValues] : ks \in SUBSET OptionKeys}

\* NewProjectRuntimeInfo(name, options); isNil tells nil options from an
\* empty mapping.
NewProjectRuntimeInfo(name, isNil, options) ==
    [name |-> name, isNil |-> isNil, options |-> options]
NoOptions == [k \in {} |-> StrV("")]
RuntimeInfos ==
    {NewProjectRuntimeInfo(n, TRUE, NoOptions) : n \in {"nodejs", "test"}}
    \cup {NewProjectRuntimeInfo(n, FALSE, o) : n \in {"nodejs", "test"}, o \in OptionMaps}

\* A scalar as it is written: its text, in quotes or plain.
Token(quoted, text) == [quoted |-> quoted, text |-> text]
BoolText(b) == IF b THEN "true" ELSE "false"

\* A YAML encoder that writes every string plain.
EncodeScalarPlain(syntax, v) ==
    IF v.t = "bool" THEN Token(FALSE, BoolText(v.b))
    ELSE Token(syntax = "JSON", v.s)

\* json.Marshal / yaml.Marshal of a scalar: JSON quotes every string; YAML
\* writes a string plain unless the plain text would be read as a boolean.
EncodeScalar(syntax, v) ==
    IF v.t = "bool" THEN Token(FALSE, BoolText(v.b))
    ELSE Token(syntax = "JSON" \/ v.s \in {"true", "false"}, v.s)

\* json.Unmarshal / yaml.Unmarshal of a scalar into interface{}.
DecodeScalar(tok) ==
    IF ~tok.quoted /\ tok.text \in {"true", "false"} THEN BoolV(tok.text = "true")
    ELSE StrV(tok.text)

\* The encoded descriptor: the runtime name alone (the compact form), or an
\* object with the name and the options.
NoBytes == [form |-> "none", name |-> Token(FALSE, ""), options |-> NoOptions]

\* ProjectRuntimeInfo's MarshalJSON / MarshalYAML.  A descriptor with nil
\* options is written in the compact form; one with an empty mapping in
\* either form (compactEmpty).
MarshalRuntimeInfo(syntax, ri, compactEmpty) ==
    IF ri.isNil \/ (compactEmpty /\ DOMAIN ri.options = {})
    THEN [form |-> "string", name |-> EncodeScalar(syntax, StrV(ri.name)),
          options |-> NoOptions]
    ELSE [form |-> "object", name |-> EncodeScalar(syntax, StrV(ri.name)),
          options |-> [k \in DOMAIN ri.options |-> EncodeScalar(syntax, ri.options[k])]]

\* ProjectRuntimeInfo's UnmarshalJSON / UnmarshalYAML: a bare string is the
\* name, with nil options; an object gives the name and the options.
UnmarshalRuntimeInfo(bytes) ==
    IF bytes.form = "string"
    THEN NewProjectRuntimeInfo(DecodeScalar(bytes.name).s, TRUE, NoOptions)
    ELSE NewProjectRuntimeInfo(DecodeScalar(bytes.name).s, FALSE,
            [k \in DOMAIN bytes.options |-> DecodeScalar(bytes.options[k])])

\* No value under an operation.
ValIdle == [op |-> "none", stage |-> 0, syntax |-> "", proj |-> NoProject, err |-> "",
            ri |-> NewProjectRuntimeInfo("", TRUE, NoOptions), bytes |-> NoBytes,
            out |-> NewProjectRuntimeInfo("", TRUE, NoOptions)]

\* ------------------------------------------------------------------- state

VARIABLES
    cache,      \* the package-level map[string]W: 0 stands for no entry
    readers,    \* the goroutines holding cacheMutex for reading
    writers,    \* the goroutines holding cacheMutex for writing
    heap,       \* the projectWorkspace values allocated, by address
    th,         \* each goroutine's position in NewFrom and its locals
    manifest,   \* the manifest files on disk
    files,      \* the settings files on disk
    returned,   \* history: the handles NewFrom has returned, by absolute directory
    lastSave,   \* history: the Save call that was the last step, if any
    calls,      \* the NewFrom calls made so far
    events,     \* the other steps of callers and environment so far
    mode,       \* the client: "concurrent", or "sequential" (calls never overlap)
    dec,        \* the manifest decoder: its input, its position and its result
    val         \* a Project being validated, or a runtime descriptor on its round trip

vars == <<cache, readers, writers, heap, th, manifest, files, returned, lastSave, calls, events, mode,
          dec, val>>

\* seen is history: what the handle a call returned was like at the return.
NotSeen == [manifest |-> NoManifest, file |-> NoFile, config |-> EmptyMap]
Idle == [pc |-> "idle", dir |-> "", path |-> "", name |-> "", w |-> 0,
         ok |-> FALSE, err |-> "", seen |-> NotSeen]
NoSave == [h |-> 0, pre |-> EmptyMap, had |-> FALSE, err |-> ""]

Handles == 1..Len(heap)
EventLimit == IF mode = "sequential" THEN MaxEvents ELSE MaxRaceEvents

\* No decoding under way.
DecIdle == [stage |-> 0, syntax |-> "", doc |-> Null, err |-> "", validated |-> FALSE,
            ran |-> <<>>, proj |-> NoProject]

InitState ==
    /\ cache = [d \in RawDirs |-> 0]
    /\ readers = {}
    /\ writers = {}
    /\ heap = <<>>
    /\ th = [t \in Threads |-> Idle]
    /\ manifest = [p \in ManifestPaths |-> IF p = P1 THEN ManifestOK ELSE NoManifest]
    /\ files = [f \in SettingsPaths |-> NoFile]
    /\ returned = [d \in RawDirs |-> {}]
    /\ lastSave = NoSave
    /\ calls = 0
    /\ events = 0

wsvars == <<cache, readers, writers, heap, th, manifest, files, returned, lastSave, calls, events>>

\* ------------------------------------------------------------------ NewFrom

\* A NewFrom that looks the directory up as it was given.
CacheKeyRaw(dir) == dir

\* The cache key NewFrom uses: the absolute directory (lines 66-70).
CacheKey(dir) == Abs(dir)

\* loadFromCache, lines 41-42.
CacheLookup(c, key) == [w |-> c[key], ok |-> c[key] # 0]

\* An insertion that starts a new map.
CacheStoreFresh(c, key, w) == [d \in DOMAIN c |-> IF d = key THEN w ELSE 0]

\* upsertIntoCache, line 51.
CacheStore(c, key, w) == [c EXCEPT ![key] = w]

\* NewFrom returns (w, err) to its caller.
Finish(t, w, err) ==
    /\ th' = [th EXCEPT ![t] =
                [Idle EXCEPT !.pc = "done", !.w = w, !.err = err,
                             !.ok = th[t].pc = "lookup",
                             !.seen = IF w = 0 THEN NotSeen
                                      ELSE [manifest |-> manifest[heap[w].project],
                                            file |-> files[settingsPath(heap[w].name,
                                                                        heap[w].project)],
                                            config |-> heap[w].settings.config]]]
    /\ returned' = IF err = ""
                   THEN [returned EXCEPT ![Abs(th[t].dir)] = @ \cup {w}]
                   ELSE returned

\* NewFrom is called with dir: by the one goroutine of a sequential client,
\* whenever it is not inside NewFrom, or by the next goroutine of a concurrent
\* client, each of which makes one call.  filepath.Abs needs the working
\* directory for a relative dir and fails when it cannot be read.
NewFromCall(t, dir, fault) ==
    /\ mode \in {"sequential", "concurrent"}
    /\ IF mode = "sequential"
       THEN t = 1 /\ th[t].pc \in {"idle", "done"}
       ELSE th[t].pc = "idle" /\ \A u \in 1..(t - 1) : th[u].pc # "idle"
    /\ calls < MaxCalls
    /\ calls' = calls + 1
    /\ IF dir = "a" /\ fault
       THEN th' = [th EXCEPT ![t] = [Idle EXCEPT !.pc = "done", !.err = "getwd"]]
       ELSE /\ fault = FALSE
            /\ th' = [th EXCEPT ![t] = [Idle EXCEPT !.pc = "RLock", !.dir = dir]]
    /\ lastSave' = NoSave
    /\ UNCHANGED <<returned, cache, readers, writers, heap, manifest, files, events, mode, dec, val>>

\* cacheMutex.RLock(): waits while a writer holds the lock.
LoadRLock(t) ==
    /\ th[t].pc = "RLock"
    /\ writers = {}
    /\ readers' = readers \cup {t}
    /\ th' = [th EXCEPT ![t].pc = "lookup"]
    /\ lastSave' = NoSave
    /\ UNCHANGED <<returned, cache, writers, heap, manifest, files, calls, events, mode, dec, val>>

\* A NewFrom that returns a cached handle only while its manifest can still
\* be decoded.
LoadReadChecked(t) ==
    /\ th[t].pc = "lookup"
    /\ readers' = readers \ {t}
    /\ LET r == CacheLookup(cache, CacheKey(th[t].dir))
       IN IF r.ok
          THEN LET p == LoadProject(heap[r.w].project, manifest)
               IN IF p.err = "" THEN Finish(t, r.w, "") ELSE Finish(t, 0, p.err)
          ELSE th' = [th EXCEPT ![t].pc = "detect"] /\ returned' = returned
    /\ lastSave' = NoSave
    /\ UNCHANGED <<cache, writers, heap, manifest, files, calls, events, mode, dec, val>>

\* loadFromCache, lines 41-42 and the deferred RUnlock, then lines 72-74: a
\* hit returns the cached handle.
LoadRead(t) ==
    /\ th[t].pc = "lookup"
    /\ readers' = readers \ {t}
    /\ LET r == CacheLookup(cache, CacheKey(th[t].dir))
       IN IF r.ok
          THEN Finish(t, r.w, "")
          ELSE th' = [th EXCEPT ![t].pc = "detect"] /\ returned' = returned
    /\ lastSave' = NoSave
    /\ UNCHANGED <<cache, writers, heap, manifest, files, calls, events, mode, dec, val>>

\* Lines 76-81.
Detect(t, fault) ==
    /\ th[t].pc = "detect"
    /\ LET path == DetectProjectPathFrom(CacheKey(th[t].dir), manifest)
       IN IF fault THEN Finish(t, 0, "input/output error")
          ELSE IF path = "" THEN Finish(t, 0, "no Pulumi.yaml project file found")
          ELSE /\ th' = [th EXCEPT ![t] = [@ EXCEPT !.pc = "load", !.path = path]]
               /\ returned' = returned
    /\ lastSave' = NoSave
    /\ UNCHANGED <<cache, readers, writers, heap, manifest, files, calls, events, mode, dec, val>>

\* Lines 83-86.
Load(t, fault) ==
    /\ th[t].pc = "load"
    /\ LET r == LoadProject(th[t].path, manifest)
       IN IF fault THEN Finish(t, 0, "input/output error")
          ELSE IF r.err # "" THEN Finish(t, 0, r.err)
          ELSE /\ th' = [th EXCEPT ![t] = [@ EXCEPT !.pc = "construct", !.name = r.name]]
               /\ returned' = returned
    /\ lastSave' = NoSave
    /\ UNCHANGED <<cache, readers, writers, heap, manifest, files, calls, events, mode, dec, val>>

\* A NewFrom that puts the handle into the cache before it reads the
\* settings.
ConstructCacheFirst(t, fault) ==
    /\ th[t].pc = "construct"
    /\ LET r == readSettings(th[t].name, th[t].path, files, fault)
       IN /\ heap' = Append(heap, [name |-> th[t].name, project |-> th[t].path,
                                   settings |-> EnsureConfig(r.settings)])
          /\ cache' = CacheStore(cache, CacheKey(th[t].dir), Len(heap) + 1)
          /\ IF r.err # ""
             THEN Finish(t, 0, r.err)
             ELSE /\ fault = FALSE
                  /\ th' = [th EXCEPT ![t] = [@ EXCEPT !.pc = "Lock", !.w = Len(heap) + 1]]
                  /\ returned' = returned
    /\ lastSave' = NoSave
    /\ UNCHANGED <<readers, writers, manifest, files, calls, events, mode, dec, val>>

\* Lines 88-100: allocate the projectWorkspace and load its settings.
Construct(t, fault) ==
    /\ th[t].pc = "construct"
    /\ LET r == readSettings(th[t].name, th[t].path, files, fault)
       IN IF r.err # ""
          THEN Finish(t, 0, r.err) /\ heap' = heap
          ELSE /\ fault = FALSE
               /\ heap' = Append(heap, [name |-> th[t].name, project |-> th[t].path,
                                        settings |-> EnsureConfig(r.settings)])
               /\ th' = [th EXCEPT ![t] = [@ EXCEPT !.pc = "Lock", !.w = Len(heap) + 1]]
               /\ returned' = returned
    /\ lastSave' = NoSave
    /\ UNCHANGED <<cache, readers, writers, manifest, files, calls, events, mode, dec, val>>

\* An upsertIntoCache that takes the lock as a reader does.
UpsertLockShared(t) ==
    /\ th[t].pc = "Lock"
    /\ writers = {}
    /\ writers' = writers \cup {t}
    /\ th' = [th EXCEPT ![t].pc = "store"]
    /\ lastSave' = NoSave
    /\ UNCHANGED <<returned, cache, readers, heap, manifest, files, calls, events, mode, dec, val>>

\* cacheMutex.Lock(): waits while any reader or writer holds the lock.
UpsertLock(t) ==
    /\ th[t].pc = "Lock"
    /\ readers = {}
    /\ writers = {}
    /\ writers' = writers \cup {t}
    /\ th' = [th EXCEPT ![t].pc = "store"]
    /\ lastSave' = NoSave
    /\ UNCHANGED <<returned, cache, readers, heap, manifest, files, calls, events, mode, dec, val>>

\* An upsertIntoCache without the deferred Unlock.
UpsertStoreNoUnlock(t) ==
    /\ th[t].pc = "store"
    /\ cache' = CacheStore(cache, CacheKey(th[t].dir), th[t].w)
    /\ writers' = writers
    /\ Finish(t, th[t].w, "")
    /\ lastSave' = NoSave
    /\ UNCHANGED <<readers, heap, manifest, files, calls, events, mode, dec, val>>

\* upsertIntoCache, line 51 and the deferred Unlock, then line 103.
UpsertStore(t) ==
    /\ th[t].pc = "store"
    /\ cache' = CacheStore(cache, CacheKey(th[t].dir), th[t].w)
    /\ writers' = writers \ {t}
    /\ Finish(t, th[t].w, "")
    /\ lastSave' = NoSave
    /\ UNCHANGED <<readers, heap, manifest, files, calls, events, mode, dec, val>>

\* ----------------------------------------------------- Settings() and Save

\* The handles NewFrom has handed out.
Held == UNION {returned[d] : d \in RawDirs}

\* A sequential client uses a handle only between its NewFrom calls.
ClientFree == mode = "sequential" => th[1].pc \in {"idle", "done"}

\* A caller changes the settings through the pointer Settings() returns:
\* it sets or deletes one entry of the configuration map.
MutateSettings(h, k, v) ==
    /\ h \in Held
    /\ ClientFree
    /\ events < EventLimit
    /\ events' = events + 1
    /\ LET c == heap[h].settings.config
           c2 == IF v = "delete" THEN [j \in DOMAIN c \ {k} |-> c[j]]
                 ELSE [j \in DOMAIN c \cup {k} |->
                         IF j = k THEN (IF v = "empty" THEN EmptyMap ELSE OneEntry)
                         ELSE c[j]]
       IN /\ c2 # c
          /\ heap' = [heap EXCEPT ![h].settings.config = c2]
    /\ lastSave' = NoSave
    /\ UNCHANGED <<returned, cache, readers, writers, th, manifest, files, calls, mode, dec, val>>

\* A Save that writes nothing for empty settings and leaves the file alone.
SaveOutcomeKeep(s, old, io) ==
    IF IsEmpty(s) THEN [file |-> old, err |-> ""]
    ELSE IF io = "ok"
         THEN [file |-> Marshal(s), err |-> ""]
         ELSE [file |-> IF io = "partial" THEN Garbage ELSE old,
               err |-> "input/output error"]

\* projectWorkspace.Save, lines 118-141, on the pruned settings s and the
\* file as it is on disk.  io tells how the file system answers: "ok", "fail"
\* (os.Remove, os.MkdirAll or the open fails: the file stays as it was) or
\* "partial" (the write fails and leaves the file truncated).  Removing a
\* file that is not there counts as success.
SaveOutcome(s, old, io) ==
    IF IsEmpty(s)
    THEN IF old = NoFile \/ io = "ok"
         THEN [file |-> NoFile, err |-> ""]
         ELSE [file |-> old, err |-> "input/output error"]
    ELSE IF io = "ok"
         THEN [file |-> Marshal(s), err |-> ""]
         ELSE [file |-> IF io = "partial" THEN Garbage ELSE old,
               err |-> "input/output error"]

\* projectWorkspace.Save.
Save(h, io) ==
    /\ h \in Held
    /\ ClientFree
    /\ events < EventLimit
    /\ events' = events + 1
    /\ LET pre == heap[h].settings.config
           s == [heap[h].settings EXCEPT !.config = PruneEmpty(pre)]
           f == settingsPath(heap[h].name, heap[h].project)
           r == SaveOutcome(s, files[f], io)
       IN /\ heap' = [heap EXCEPT ![h].settings = s]
          /\ files' = [files EXCEPT ![f] = r.file]
          /\ lastSave' = [h |-> h, pre |-> pre, had |-> files[f] # NoFile, err |-> r.err]
    /\ UNCHANGED <<returned, cache, readers, writers, th, manifest, calls, mode, dec, val>>

\* ------------------------------------------------------------- environment

\* Somebody edits, corrupts or deletes a manifest.
ChangeManifest(p, c) ==
    /\ manifest[p] # c
    /\ events < EventLimit
    /\ events' = events + 1
    /\ manifest' = [manifest EXCEPT ![p] = c]
    /\ lastSave' = NoSave
    /\ UNCHANGED <<returned, cache, readers, writers, heap, th, files, calls, mode, dec, val>>

\* Somebody corrupts or deletes a settings file.
ChangeSettingsFile(f, c) ==
    /\ files[f] # c
    /\ events < EventLimit
    /\ events' = events + 1
    /\ files' = [files EXCEPT ![f] = c]
    /\ lastSave' = NoSave
    /\ UNCHANGED <<returned, cache, readers, writers, heap, th, manifest, calls, mode, dec, val>>

\* The steps of goroutine t inside NewFrom.
ThreadStep(t) ==
    \/ LoadRLock(t)
    \/ LoadRead(t)
    \/ \E fault \in BOOLEAN : Detect(t, fault)
    \/ \E fault \in BOOLEAN : Load(t, fault)
    \/ \E fault \in BOOLEAN : Construct(t, fault)
    \/ UpsertLock(t)
    \/ UpsertStore(t)

Next ==
    \/ \E t \in Threads, d \in RawDirs, fault \in BOOLEAN : NewFromCall(t, d, fault)
    \/ \E t \in Threads : ThreadStep(t)
    \/ \E h \in Handles, k \in ConfigKeys, v \in {"delete", "empty", "entry"} :
            MutateSettings(h, k, v)
    \/ \E h \in Handles, io \in {"ok", "fail", "partial"} : Save(h, io)
    \/ \E p \in ManifestPaths, c \in ManifestContents : ChangeManifest(p, c)
    \/ \E f \in SettingsPaths, c \in {NoFile, Garbage} : ChangeSettingsFile(f, c)

Init == InitState /\ mode = "concurrent" /\ dec = DecIdle /\ val = ValIdle
InitSeq == InitState /\ mode = "sequential" /\ dec = DecIdle /\ val = ValIdle

\* Goroutines calling NewFrom concurrently.
Spec == Init /\ [][Next]_vars
\* A client whose NewFrom calls never overlap.
SpecSeq == InitSeq /\ [][Next]_vars
\* Goroutines calling NewFrom concurrently, under a fair scheduler: a
\* goroutine that can take a step of NewFrom (its file-system call completes,
\* the lock it waits for is free) eventually takes it.
SpecLive == Init /\ [][Next]_vars /\ \A t \in Threads : WF_vars(ThreadStep(t))

\* ------------------------------------------------------- decoding, stepwise

\* The decoder is given a document in one of the two syntaxes.
InitDecode ==
    /\ InitState
    /\ mode = "decode"
    /\ val = ValIdle
    /\ \E syntax \in Syntaxes, doc \in Docs :
          /\ HasSyntax(doc, syntax)
          /\ dec = [DecIdle EXCEPT !.stage = 1, !.syntax = syntax, !.doc = doc]

\* The next check of the decoder: a failure ends the decoding with its error.
DecCheck ==
    /\ dec.stage \in DOMAIN DecodeOrder
    /\ LET check == DecodeOrder[dec.stage]
           err == RunCheck(check, dec.syntax, dec.doc)
       IN dec' = [dec EXCEPT !.stage = IF err = "" THEN dec.stage + 1 ELSE -1,
                             !.err = err,
                             !.validated = dec.validated \/ check = "schema",
                             !.ran = Append(dec.ran, check)]
    /\ UNCHANGED <<wsvars, mode, val>>

\* Every check passed: the Project is populated.
DecPopulate ==
    /\ dec.stage = Len(DecodeOrder) + 1
    /\ dec' = [dec EXCEPT !.stage = -2, !.proj = Populate(dec.doc)]
    /\ UNCHANGED <<wsvars, mode, val>>

DecFailed == dec.stage = -1
DecDone == dec.stage = -2

NextDecode == DecCheck \/ DecPopulate

SpecDecode == InitDecode /\ [][NextDecode]_vars

\* --------------------------------------- validation and round trip, stepwise

\* A Project value is given to Validate, or a runtime descriptor to one of
\* the two encodings.
InitValues ==
    /\ InitState
    /\ mode = "values"
    /\ dec = DecIdle
    /\ \/ \E p \in ProjectValues :
             val = [ValIdle EXCEPT !.op = "validate", !.stage = 1, !.proj = p]
       \/ \E ri \in RuntimeInfos, syntax \in Syntaxes :
             val = [ValIdle EXCEPT !.op = "roundtrip", !.stage = 1, !.syntax = syntax,
                                   !.ri = ri]

\* proj.Validate().
ValidateStep ==
    /\ val.op = "validate" /\ val.stage = 1
    /\ val' = [val EXCEPT !.stage = 2, !.err = Validate(val.proj)]
    /\ UNCHANGED <<wsvars, mode, dec>>

\* byts, err = marshal(ri).
MarshalStep(compactEmpty) ==
    /\ val.op = "roundtrip" /\ val.stage = 1
    /\ val' = [val EXCEPT !.stage = 2,
                          !.bytes = MarshalRuntimeInfo(val.syntax, val.ri, compactEmpty)]
    /\ UNCHANGED <<wsvars, mode, dec>>

\* err = unmarshal(byts, &riRountrip).
UnmarshalStep ==
    /\ val.op = "roundtrip" /\ val.stage = 2
    /\ val' = [val EXCEPT !.stage = 3, !.out = UnmarshalRuntimeInfo(val.bytes)]
    /\ UNCHANGED <<wsvars, mode, dec>>

NextValues ==
    \/ ValidateStep
    \/ \E compactEmpty \in BOOLEAN : MarshalStep(compactEmpty)
    \/ UnmarshalStep

SpecValues == InitValues /\ [][NextValues]_vars

\* ------------------------------------------------------------------ claims

\* C1: in a client whose calls never overlap, once NewFrom has returned a
\* handle for an absolute directory, a later call whose directory resolves to
\* it returns from the lookup, with no error and with that same handle; so no
\* absolute directory ever has two handles returned for it.
C1_SameHandleSequential ==
    [][/\ \A d \in RawDirs : Cardinality(returned'[d]) <= 1
       /\ \A t \in Threads :
             (/\ th[t].pc = "lookup"
              /\ th'[t].pc # "lookup"
              /\ returned[Abs(th[t].dir)] # {})
                => /\ th'[t].pc = "done"
                   /\ th'[t].err = ""
                   /\ returned[Abs(th[t].dir)] = {th'[t].w}]_vars

\* A second call for /w/a, given as another directory string, was answered
\* from the cache with the handle of the first.
C1_Witness ==
    /\ mode = "sequential"
    /\ calls >= 2
    /\ th[1].pc = "done" /\ th[1].ok /\ th[1].err = ""
    /\ returned["/w/a"] = {th[1].w}
    /\ cache["/w/a"] = th[1].w

\* C2: under any interleaving, the successful NewFrom calls for one absolute
\* directory all return one handle, and a handle in the cache is never
\* replaced by another.
C2_OneHandlePerDirectory ==
    [][\A d \in RawDirs :
          /\ Cardinality(returned'[d]) <= 1
          /\ cache[d] # 0 => cache'[d] = cache[d]]_vars

\* C3: a directory in the cache stays in the cache, and a lookup of a cached
\* directory is a hit that returns the cached handle.
C3_NeverEvicts ==
    [][/\ \A d \in RawDirs : cache[d] # 0 => CacheLookup(cache', d).ok
       /\ \A t \in Threads :
             (th[t].pc = "lookup" /\ th'[t].pc # "lookup" /\ cache[Abs(th[t].dir)] # 0)
                => /\ th'[t].pc = "done"
                   /\ th'[t].ok
                   /\ th'[t].w = cache[Abs(th[t].dir)]]_vars

\* A directory was cached by one goroutine and the call of another one for
\* it was a hit.
C3_Witness ==
    \E t \in Threads :
        /\ th[t].pc = "done" /\ th[t].ok
        /\ \E d \in RawDirs : cache[d] = th[t].w
        /\ \E u \in Threads \ {t} : th[u].pc = "done" /\ ~th[u].ok /\ th[u].w = th[t].w

\* The entries of a configuration map whose inner map has an entry.
NonEmptyEntries(c) == {k \in DOMAIN c : DOMAIN c[k] # {}}

SavedFile == settingsPath(heap[lastSave.h].name, heap[lastSave.h].project)
SaveSucceeded == lastSave.h # 0 /\ lastSave.err = ""

\* C4: after a Save that returned no error the settings file exists exactly
\* when the settings had an entry with a non-empty inner map; and a Save of
\* settings without such an entry returns no error when there was no file.
C4_FileIffNonEmpty ==
    lastSave.h # 0 =>
        /\ lastSave.err = "" =>
              (files[SavedFile] # NoFile <=> NonEmptyEntries(lastSave.pre) # {})
        /\ (NonEmptyEntries(lastSave.pre) = {} /\ ~lastSave.had) => lastSave.err = ""

\* A Save of settings whose entries are all empty removed the file that was
\* there.
C4_Witness ==
    /\ SaveSucceeded
    /\ lastSave.had
    /\ DOMAIN lastSave.pre # {}
    /\ NonEmptyEntries(lastSave.pre) = {}
    /\ files[SavedFile] = NoFile

\* C5: after a Save that returned no error, loading the settings of the same
\* project as NewFrom does with an empty cache gives the saved settings
\* without their empty entries, each kept entry unchanged; that is the
\* default (an empty, non-nil map) when no entry is kept.
C5_SaveLoadRoundTrip ==
    SaveSucceeded =>
        LET r == readSettings(heap[lastSave.h].name, heap[lastSave.h].project,
                              files, FALSE)
            got == EnsureConfig(r.settings)
        IN /\ r.err = ""
           /\ ~got.isNil
           /\ DOMAIN got.config = NonEmptyEntries(lastSave.pre)
           /\ \A k \in DOMAIN got.config : got.config[k] = lastSave.pre[k]

\* Settings with an empty and a non-empty entry were saved and written.
C5_Witness ==
    /\ SaveSucceeded
    /\ NonEmptyEntries(lastSave.pre) # {}
    /\ NonEmptyEntries(lastSave.pre) # DOMAIN lastSave.pre
    /\ files[SavedFile].kind = "json"

\* C6: when NewFrom loads the settings (lines 93-100) no file is created; if
\* the file is absent the handle gets an empty, non-nil configuration map; if
\* it is malformed NewFrom fails with the parse error, unless reading it
\* failed; and a read error is returned, with no handle.
C6_SettingsLoad ==
    [][\A t \in Threads :
          (th[t].pc = "construct" /\ th'[t].pc # "construct") =>
             LET b == files[settingsPath(th[t].name, th[t].path)]
             IN /\ files' = files
                /\ b = NoFile =>
                      /\ th'[t].pc = "Lock"
                      /\ heap' = Append(heap, [name |-> th[t].name,
                                               project |-> th[t].path,
                                               settings |-> [isNil |-> FALSE,
                                                             config |-> EmptyMap]])
                /\ b = Garbage =>
                      /\ th'[t].pc = "done"
                      /\ th'[t].err \in {"invalid character", "input/output error"}
                      /\ th'[t].w = 0
                      /\ heap' = heap
                /\ th'[t].pc = "done" =>
                      /\ th'[t].err # ""
                      /\ th'[t].w = 0
                      /\ heap' = heap
                      /\ b # NoFile]_vars

\* A handle was made while there was no settings file.
C6_Witness ==
    \E t \in Threads :
        /\ th[t].pc = "Lock"
        /\ files[settingsPath(th[t].name, th[t].path)] = NoFile
        /\ heap[th[t].w].settings = [isNil |-> FALSE, config |-> EmptyMap]

\* C7: handles with different manifest paths have different settings files,
\* and handles with the same name and manifest path have the same one.
C7_SettingsPathOneToOne ==
    \A h1, h2 \in Handles :
        LET f1 == settingsPath(heap[h1].name, heap[h1].project)
            f2 == settingsPath(heap[h2].name, heap[h2].project)
        IN /\ heap[h1].project # heap[h2].project => f1 # f2
           /\ (heap[h1].project = heap[h2].project /\ heap[h1].name = heap[h2].name)
                 => f1 = f2

\* Two handles of projects with one name and different manifest paths.
C7_Witness ==
    \E h1, h2 \in Handles :
        /\ heap[h1].project # heap[h2].project
        /\ heap[h1].name = heap[h2].name

\* C8: the cache lock is held only during the lookup and the insertion, not
\* while the manifest is found or decoded or the settings are read; a writer
\* excludes every other holder; and a goroutine that is not waiting for the
\* lock can always take its next step.
C8_LockWindow ==
    /\ readers = {t \in Threads : th[t].pc = "lookup"}
    /\ writers = {t \in Threads : th[t].pc = "store"}
    /\ Cardinality(writers) <= 1
    /\ writers # {} => readers = {}
    /\ \A t \in Threads :
          /\ th[t].pc \in {"lookup", "detect", "load", "construct", "store"}
                => ENABLED ThreadStep(t)
          /\ (th[t].pc = "RLock" /\ writers = {}) => ENABLED ThreadStep(t)
          /\ (th[t].pc = "Lock" /\ writers = {} /\ readers = {}) => ENABLED ThreadStep(t)

\* Two lookups hold the lock at once.
C8_Witness == Cardinality(readers) = 2

\* The decoding has ended for a document that is an object with string keys
\* only: one that reaches the presence checks.
Decoded == dec.stage < 0
ReachesPresence == Decoded /\ dec.doc.t = "object" /\ BadKeys(dec.doc) = <<>>
NameOK == Has(dec.doc, "name") /\ Get(dec.doc, "name").t = "string"
            /\ Get(dec.doc, "name").s # ""

\* C9: for a document that reaches the presence checks, in either syntax: no
\* 'name' key gives the missing-name error; else a 'name' that is empty or no
\* string gives the non-empty-string error; else no 'runtime' key gives the
\* missing-runtime error; each ends the decoding with no Project and before
\* the schema validator is invoked.
C9_PresenceChecks ==
    ReachesPresence =>
        /\ ~Has(dec.doc, "name") =>
              dec.err = "project is missing a 'name' attribute"
        /\ (Has(dec.doc, "name") /\ ~NameOK) =>
              dec.err = "project is missing a non-empty string 'name' attribute"
        /\ (NameOK /\ ~Has(dec.doc, "runtime")) =>
              dec.err = "project is missing a 'runtime' attribute"
        /\ (~NameOK \/ ~Has(dec.doc, "runtime")) =>
              /\ DecFailed
              /\ ~dec.validated
              /\ dec.proj = NoProject

\* A document with an empty name and a member the schema rejects failed with
\* the name error alone.
C9_Witness ==
    /\ ReachesPresence
    /\ Has(dec.doc, "name") /\ ~NameOK
    /\ SchemaErrors(dec.syntax, dec.doc) # <<>>
    /\ dec.err = "project is missing a non-empty string 'name' attribute"

\* C10: a document with a non-string key at any depth fails, before the
\* presence checks and the schema validation, with "expected only string
\* keys, got '<key>'", the key printed as its value (4 as '4').
C10_BadKeyMessage ==
    (Decoded /\ dec.doc.t = "object" /\ BadKeys(dec.doc) # <<>>) =>
        /\ DecFailed
        /\ ~dec.validated
        /\ dec.err = "expected only string keys, got '"
                        \o ToString(Head(BadKeys(dec.doc)).n) \o "'"

\* C11: a document whose top-level value is no object fails with "expected a
\* JSON object" or "expected a YAML object", by its syntax, and the object
\* check is the only check that ran: not the string-key check, the presence
\* checks or the schema validation.
C11_TopLevelObject ==
    (Decoded /\ dec.doc.t # "object") =>
        /\ DecFailed
        /\ dec.proj = NoProject
        /\ dec.syntax = "JSON" => dec.err = "expected a JSON object"
        /\ dec.syntax = "YAML" => dec.err = "expected a YAML object"
        /\ dec.ran = <<"object">>
        /\ ~dec.validated

\* The YAML scalar "hello" was rejected.
C11_Witness ==
    /\ DecFailed
    /\ dec.syntax = "YAML"
    /\ dec.doc = Str("hello")
    /\ dec.err = "expected a YAML object"

\* The errors the validator reports for the document being decoded, and the
\* line of the aggregated error for the i-th of them (none past the last).
Reported == SchemaErrors(dec.syntax, dec.doc)
ReportLine(i) ==
    IF i <= Len(Reported)
    THEN "\t* #/" \o Reported[i].path \o ": " \o Reported[i].msg \o "\n"
    ELSE ""

\* C12: when the validator reports N >= 1 errors for a document that passed
\* the object, string-key and presence checks, the decoding fails with one
\* error: the line "<N> errors occurred:", then one line "<tab>* #/<path>:
\* <message>" for each reported error, in the reported order, then an empty
\* line; and no Project is populated.
C12_AggregatedSchemaError ==
    (ReachesPresence /\ NameOK /\ Has(dec.doc, "runtime") /\ Reported # <<>>) =>
        /\ DecFailed
        /\ dec.validated
        /\ dec.proj = NoProject
        /\ Len(Reported) <= 5
        /\ dec.err = ToString(Len(Reported)) \o " errors occurred:\n"
                        \o ReportLine(1) \o ReportLine(2) \o ReportLine(3)
                        \o ReportLine(4) \o ReportLine(5) \o "\n"

\* A document whose runtime, main and backend are all of the wrong type
\* failed with the five errors of the validator in one.
C12_Witness ==
    /\ DecFailed
    /\ dec.validated
    /\ Len(Reported) = 5
    /\ Reported[4].path = "main"
    /\ Reported[5].path = "backend"

C14_ValidateOrder ==
    [][(val.op = "validate" /\ val.stage = 1) =>
          /\ val'.stage = 2
          /\ val'.proj = val.proj
          /\ val.proj.name = "" => val'.err = "project is missing a 'name' attribute"
          /\ (val.proj.name # "" /\ val.proj.runtime = "") =>
                val'.err = "project is missing a 'runtime' attribute"
          /\ (val.proj.name # "" /\ val.proj.runtime # "") => val'.err = ""]_vars

\* A Project with a runtime and no name was refused for its name.
C14_Witness ==
    /\ val.op = "validate" /\ val.stage = 2
    /\ val.proj.name = "" /\ val.proj.runtime # ""
    /\ val.err = "project is missing a 'name' attribute"

C16_ErrorLeavesCache ==
    [][/\ \A t \in Threads :
             (th'[t] # th[t] /\ th'[t].pc = "done" /\ th'[t].err # "") =>
                /\ cache' = cache
                /\ th'[t].w = 0
       /\ cache' # cache =>
             \E t \in Threads :
                /\ th[t].pc = "store"
                /\ th'[t].pc = "done" /\ th'[t].err = ""
                /\ cache' = [cache EXCEPT ![Abs(th[t].dir)] = th'[t].w]
       /\ \A d \in RawDirs :
             cache'[d] # 0 =>
                /\ cache'[d] \in 1..Len(heap')
                /\ heap'[cache'[d]].name \in ProjectNames
                /\ ~heap'[cache'[d]].settings.isNil]_vars

\* With a directory in the cache, a call for another one failed on a
\* malformed settings file.
C16_Witness ==
    \E t \in Threads :
        /\ th[t].pc = "done"
        /\ th[t].err = "invalid character"
        /\ \E d \in RawDirs : cache[d] # 0
        /\ \A d \in RawDirs : cache[d] # 0 => heap[cache[d]].name = "project"

\* C17: after a Save, whether it removed the file, wrote it or failed, the
\* handle's configuration map is the map it had before, without the entries
\* whose inner map had no entry: every other entry is kept with its inner
\* map as it was, also one whose values are empty, and no key is added.
C17_ShallowPrune ==
    lastSave.h # 0 =>
        LET now == heap[lastSave.h].settings.config
        IN /\ DOMAIN now = {k \in DOMAIN lastSave.pre : DOMAIN lastSave.pre[k] # {}}
           /\ \A k \in DOMAIN now : now[k] = lastSave.pre[k]

\* A Save that failed on the file system pruned a map with an empty entry
\* and an entry whose only value is empty.
C17_Witness ==
    /\ lastSave.h # 0
    /\ lastSave.err # ""
    /\ \E k \in DOMAIN lastSave.pre : lastSave.pre[k] = EmptyMap
    /\ \E k \in DOMAIN lastSave.pre :
          /\ lastSave.pre[k] = OneEntry
          /\ heap[lastSave.h].settings.config[k] = OneEntry

\* C18: the steps of a NewFrom call for a directory that is in the cache
\* change neither the cache, nor any handle's settings, nor a file; and the
\* call returns the cached handle with no error, whatever the manifest and
\* the settings file are by then.
C18_HitTouchesNothing ==
    [][\A t \in Threads :
          (/\ th'[t] # th[t]
           /\ \/ th[t].pc \in {"RLock", "lookup"} /\ cache[Abs(th[t].dir)] # 0
              \/ th'[t].pc = "RLock" /\ cache[Abs(th'[t].dir)] # 0)
             => /\ cache' = cache
                /\ heap' = heap
                /\ files' = files
                /\ manifest' = manifest
                /\ th[t].pc = "lookup" =>
                      /\ th'[t].pc = "done"
                      /\ th'[t].err = ""
                      /\ th'[t].ok
                      /\ th'[t].w = cache[Abs(th[t].dir)]]_vars

\* A call was answered from the cache with a handle that has an unsaved
\* change, after its manifest was deleted and its settings file corrupted.
C18_Witness ==
    /\ th[1].pc = "done" /\ th[1].ok /\ th[1].err = ""
    /\ th[1].seen.manifest = NoManifest
    /\ th[1].seen.file = Garbage
    /\ th[1].seen.config # EmptyMap

\* The settings file of a handle.
FileOf(h) == settingsPath(heap[h].name, heap[h].project)

\* C19: the handles cached under two different absolute directories have
\* different settings files, and a Save through one handle leaves the
\* settings file of every other cached handle as it is.
C19_SettingsIsolation ==
    [][/\ \A d1, d2 \in RawDirs :
             (d1 # d2 /\ cache'[d1] # 0 /\ cache'[d2] # 0)
                => settingsPath(heap'[cache'[d1]].name, heap'[cache'[d1]].project)
                      # settingsPath(heap'[cache'[d2]].name, heap'[cache'[d2]].project)
       /\ lastSave'.h # 0 =>
             \A d \in RawDirs :
                (cache[d] # 0 /\ cache[d] # lastSave'.h)
                   => files'[FileOf(cache[d])] = files[FileOf(cache[d])]]_vars

\* C19, amended: handles whose manifest paths differ have different settings
\* files, and a Save through a handle leaves the settings file of every
\* handle with another manifest path as it is.
C19_ManifestIsolation ==
    [][/\ \A h1, h2 \in 1..Len(heap') :
             heap'[h1].project # heap'[h2].project
                => settingsPath(heap'[h1].name, heap'[h1].project)
                      # settingsPath(heap'[h2].name, heap'[h2].project)
       /\ lastSave'.h # 0 =>
             \A g \in Handles :
                heap[g].project # heap[lastSave'.h].project
                   => files'[FileOf(g)] = files[FileOf(g)]]_vars

\* With handles for two manifests, the settings of one were saved to its
\* file.
C19_Witness ==
    /\ SaveSucceeded
    /\ files[SavedFile].kind = "json"
    /\ \E g \in Handles :
          /\ heap[g].project # heap[lastSave.h].project
          /\ files[FileOf(g)] # files[SavedFile]

\* C20: under a fair scheduler every NewFrom call that was made returns, and
\* the cache lock, once held, is released again.
C20_NoBlocking ==
    /\ \A t \in Threads : (th[t].pc \notin {"idle", "done"}) ~> (th[t].pc = "done")
    /\ (readers # {} \/ writers # {}) ~> (readers = {} /\ writers = {})

\* A goroutine waits for the lock while another one holds it for writing.
C20_Witness ==
    \E t \in Threads : th[t].pc = "RLock" /\ writers # {} /\ t \notin writers

====
